---- MODULE Spec2Model ----
(***************************************************************************)
(* A model of torchy_baselines/common/distributions.py: the probability    *)
(* distributions of a policy head (DiagGaussianDistribution,               *)
(* SquashedDiagGaussianDistribution, CategoricalDistribution) and the      *)
(* factory make_proba_distribution.                                        *)
(*                                                                         *)
(* Numbers are fixed-point: an integer n stands for n / Scale, and, in an  *)
(* action of the squashed Gaussian (which lies in [-1, 1]), for n / Unit.  *)
(* Tensors are records [tag, shape, data] with row-major data, as torch    *)
(* stores a contiguous tensor; Python's None is the record None.  A method *)
(* is an operator from the instance (and its arguments) to an outcome      *)
(* [self, status, value, value2, obj, produced, msg]: the instance after   *)
(* the call, "ok" or the exception raised, and what was returned.          *)
(***************************************************************************)
EXTENDS Integers, Sequences, FiniteSets, TLC

\* ---------------------------------------------------------------- bounds
\* Largest batch size B of a parameter or action tensor.
MaxBatch == 2
\* Largest action dimension d (Box) / number of actions n (Discrete).
MaxDim == 2

\* ------------------------------------------------------------ fixed point
\* One unit is 1/Scale.
Scale == 10^3
\* Stands for +infinity (np.arctanh(1.0)); NegInf for -infinity.
PosInf == 10^9
NegInf == -PosInf
Abs(x) == IF x < 0 THEN -x ELSE x
\* F(x) with x evaluated once, first: a local variable of the code.
Bind(x, F(_)) == CHOOSE y \in {F(v) : v \in {x}} : TRUE
Max(a, b) == IF a >= b THEN a ELSE b
\* a / b rounded to the nearest integer (b > 0).
RDiv(a, b) == (2 * a + b) \div (2 * b)
\* a * b / Scale for a >= 0 without leaving 32 bits.
MulMilli(a, b) == (a \div Scale) * b + RDiv((a % Scale) * b, Scale)

RECURSIVE LnUp(_, _)
\* Doubles m until it is at least 1/2 (in 10^-6), counting the doublings in k.
LnUp(m, k) == IF m < 500000 THEN LnUp(2 * m, k - 1) ELSE <<m, k>>
RECURSIVE LnDown(_, _)
LnDown(m, k) == IF m > 1000000 THEN LnDown(m \div 2, k + 1) ELSE <<m, k>>

\* Natural logarithm: n is in units of 10^-6 (n >= 1), the result in 10^-6.
\* ln(m) = -2 artanh((1 - m) / (1 + m)) on the reduced argument m in [1/2, 1].
LnFine(n) ==
    LET u == LnUp(n, 0)
        w == LnDown(u[1], u[2])
        m == w[1]
        k == w[2]
        Z == ((1000000 - m) * 100) \div ((1000000 + m) \div 1000)
        Z2 == (Z * Z) \div 100000
        Z3 == (Z2 * Z) \div 100000
        Z5 == (Z3 * Z2) \div 100000
        Z7 == (Z5 * Z2) \div 100000
        s == Z + Z3 \div 3 + Z5 \div 5 + Z7 \div 7
    IN k * 693147 - 20 * s
\* The same with the result in 1/Scale.
LnMicro(n) == RDiv(LnFine(n), 1000)

\* Taylor polynomial of e^x in Horner form, 0 <= x < Scale.
ExpFrac(x) ==
    LET t6 == Scale + RDiv(x * Scale, 6 * Scale)
        t5 == Scale + RDiv(x * t6, 5 * Scale)
        t4 == Scale + RDiv(x * t5, 4 * Scale)
        t3 == Scale + RDiv(x * t4, 3 * Scale)
        t2 == Scale + RDiv(x * t3, 2 * Scale)
    IN Scale + RDiv(x * t2, Scale)

RECURSIVE ExpPos(_)
\* e^x for x >= 0, x and the result in 1/Scale.
ExpPos(x) == IF x >= Scale THEN MulMilli(ExpPos(x - Scale), 2718) ELSE ExpFrac(x)

\* th.exp on one element.
Exp(x) == IF x < 0 THEN RDiv(Scale * Scale, ExpPos(-x)) ELSE ExpPos(x)

\* th.log on one element given in 1/Scale.
Log(x) == LnMicro(x * Scale)

\* A squashed action lies in [-1, 1] and is held in units of 1/Unit = 2^-24,
\* the spacing of the float32 numbers below 1: tanh(g) is 1 exactly when it
\* is within 2^-25 of 1, as in float32.
Unit == 2^24
\* x * y / Unit rounded, for 0 <= x, y <= 2 * Unit, without leaving 32 bits.
MulShift(x, y) ==
    LET xh == x \div 4096
        xl == x % 4096
        yh == y \div 4096
        yl == y % 4096
    IN xh * yh + ((xh * yl + xl * yh + 2048 + ((xl * yl) \div 4096)) \div 4096)
\* ln 2 in 1/Unit.
Ln2Unit == 11629 * 1000 + 80
RECURSIVE ExpHorner(_, _)
\* Taylor polynomial of e^r in Horner form from term k on, 0 <= r < ln 2, r
\* and the result in 1/Unit.
ExpHorner(r, k) ==
    IF k > 10 THEN Unit
    ELSE Bind(ExpHorner(r, k + 1), LAMBDA t : Unit + RDiv(MulShift(r, t), k))
RECURSIVE DivPow2(_, _, _)
\* (qr[1] + qr[2] / den) * 2^j rounded, by long division five bits at a time
\* (qr[2] < den < 2^26).
DivPow2(qr, den, j) ==
    IF j = 0 THEN (IF 2 * qr[2] >= den THEN qr[1] + 1 ELSE qr[1])
    ELSE Bind(IF j >= 5 THEN 5 ELSE j,
              LAMBDA s :
                 Bind(<<qr[1] * 2^s + ((qr[2] * 2^s) \div den), (qr[2] * 2^s) % den>>,
                      LAMBDA next : DivPow2(next, den, j - s)))
\* 1 - tanh(g) in 1/Unit for g >= 0 in 1/Scale: 2 / (e^(2g) + 1) with
\* e^(2g) = M * 2^n, 1 <= M < 2, that is 2^(49 - n) / (M + 2^(24 - n)) with M
\* in 1/Unit.
OneMinusTanh(g) ==
    LET x == (2 * g) * 16777 + RDiv((2 * g) * 216, 1000)
        n == x \div Ln2Unit
    IN IF n >= 26 THEN 0
       ELSE IF n = 25 THEN 1
       ELSE Bind(ExpHorner(x % Ln2Unit, 1) + 2^(24 - n),
                 LAMBDA den :
                    IF 49 - n <= 30
                    THEN DivPow2(<<2^(49 - n) \div den, 2^(49 - n) % den>>, den, 0)
                    ELSE DivPow2(<<2^30 \div den, 2^30 % den>>, den, 19 - n))
\* th.tanh on one element: g in 1/Scale, the result in 1/Unit; odd.
TanhPos(g) == IF g >= 10 * Scale THEN Unit ELSE Unit - OneMinusTanh(g)
Tanh(g) == IF g < 0 THEN -TanhPos(-g) ELSE TanhPos(g)

\* np.arctanh on one element, a in 1/Unit, |a| <= 1, the result in 1/Scale:
\* 0.5 * (ln(1 + a) - ln(1 - a)), and +-inf at a = +-1.
ArcTanhPos(a) == IF a >= Unit THEN PosInf
                 ELSE RDiv(LnFine(Unit + a) - LnFine(Unit - a), 2000)
ArcTanh(a) == IF a < 0 THEN -ArcTanhPos(-a) ELSE ArcTanhPos(a)

IsInf(x) == x >= PosInf \/ x <= NegInf

\* math.log(math.sqrt(2 * math.pi)).
LogSqrt2Pi == RDiv(Log(6283), 2)

\* ---------------------------------------------------------------- tensors
Tensor(shape, data) == [tag |-> "tensor", shape |-> shape, data |-> data]
\* Python's None, where a tensor could stand.
None == [tag |-> "None", shape |-> <<>>, data |-> <<>>]
IsNone(t) == t.tag = "None"
Rank(t) == Len(t.shape)
\* A 0-dim tensor holding x.
Scalar(x) == Tensor(<<>>, <<x>>)

\* A shape of rank <= 2 aligned to the right and padded with 1s to rank 2.
Pad2(shape) == IF Len(shape) = 0 THEN <<1, 1>>
               ELSE IF Len(shape) = 1 THEN <<1, shape[1]>>
               ELSE shape
Numel(shape) == Pad2(shape)[1] * Pad2(shape)[2]

\* torch's broadcasting rule: aligned sizes are equal or one of them is 1.
Broadcastable(s1, s2) ==
    \A i \in 1..2 : \/ Pad2(s1)[i] = Pad2(s2)[i]
                    \/ Pad2(s1)[i] = 1
                    \/ Pad2(s2)[i] = 1
BroadcastPad(s1, s2) ==
    [i \in 1..2 |-> IF Pad2(s1)[i] = 1 THEN Pad2(s2)[i] ELSE Pad2(s1)[i]]
BroadcastShape(s1, s2) ==
    LET r == BroadcastPad(s1, s2)
        rank == Max(Len(s1), Len(s2))
    IN IF rank = 0 THEN <<>> ELSE IF rank = 1 THEN <<r[2]>> ELSE <<r[1], r[2]>>

\* The element of t at flat position k of the padded shape r that t is
\* broadcast to.
At(t, r, k) ==
    LET p == Pad2(t.shape)
        i == IF p[1] = 1 THEN 1 ELSE (k - 1) \div r[2] + 1
        j == IF p[2] = 1 THEN 1 ELSE ((k - 1) % r[2]) + 1
    IN t.data[(i - 1) * p[2] + j]

\* An elementwise unary / binary (broadcasting) operation.
Map1(Op(_), a) == Tensor(a.shape, [k \in 1..Len(a.data) |-> Op(a.data[k])])
Map2(Op(_, _), a, b) ==
    LET r == BroadcastPad(a.shape, b.shape)
    IN Tensor(BroadcastShape(a.shape, b.shape),
              [k \in 1..(r[1] * r[2]) |-> Op(At(a, r, k), At(b, r, k))])

RECURSIVE SumSeq(_)
\* The sum of a sequence of elements; -inf absorbs.
SumSeq(s) ==
    IF Len(s) = 0 THEN 0
    ELSE LET rest == SumSeq(Tail(s))
         IN IF IsInf(Head(s)) THEN Head(s)
            ELSE IF IsInf(rest) THEN rest
            ELSE Head(s) + rest

\* Row i (1-based) of a rank-2 tensor, as a sequence.
Row(t, i) == SubSeq(t.data, (i - 1) * t.shape[2] + 1, i * t.shape[2])
\* tensor.sum(axis=1) / th.sum(tensor, dim=1) of a rank-2 tensor.
SumAxis1(t) == Tensor(<<t.shape[1]>>, [i \in 1..t.shape[1] |-> SumSeq(Row(t, i))])
\* tensor.sum() over every element: a 0-dim tensor.
SumAll(t) == Scalar(SumSeq(t.data))

\* th.tanh and np.arctanh, elementwise.
TanhT(t) == Map1(Tanh, t)
ArcTanhT(t) == Map1(ArcTanh, t)

\* ------------------------------------------- torch.distributions (library)
\* self.distribution = None.
NoDist == [tag |-> "None", loc |-> None, scale |-> None]
\* torch.distributions.Normal(loc, scale).
Normal(loc, scale) == [tag |-> "Normal", loc |-> loc, scale |-> scale]

\* Normal.log_prob on one element:
\* -((value - loc) ** 2) / (2 * var) - log(scale) - log(sqrt(2 * pi)).
NormalLogProbElem(x, mu, sigma) ==
    IF IsInf(x) THEN NegInf
    ELSE -RDiv((x - mu) * (x - mu), RDiv(2 * sigma * sigma, Scale))
         - Log(sigma) - LogSqrt2Pi
\* Normal.log_prob(value): elementwise, value broadcast against loc and scale.
NormalLogProb(dist, value) ==
    LET r == BroadcastPad(value.shape, dist.loc.shape)
    IN Tensor(BroadcastShape(value.shape, dist.loc.shape),
              [k \in 1..(r[1] * r[2]) |->
                  NormalLogProbElem(At(value, r, k), At(dist.loc, r, k),
                                    At(dist.scale, r, k))])
\* Normal.entropy(): 0.5 + 0.5 * log(2 * pi) + log(scale), one value per element.
NormalEntropyElem(sigma) == Scale \div 2 + LogSqrt2Pi + Log(sigma)
NormalEntropy(dist) == Map1(NormalEntropyElem, dist.scale)
\* Normal.mean.
NormalMean(dist) == dist.loc
\* Normal.rsample(): loc + eps * scale with eps the standard normal draw.
RSampleElem(mu, sigma, eps) == mu + RDiv(eps * sigma, Scale)
NormalRSample(dist, eps) ==
    Tensor(dist.loc.shape,
           [k \in 1..Len(dist.loc.data) |->
               RSampleElem(dist.loc.data[k], dist.scale.data[k], eps.data[k])])

\* The rows of a logits tensor (a rank-1 tensor is one row).
NumRows(t) == Pad2(t.shape)[1]
RowLen(t) == Pad2(t.shape)[2]
Elem(t, i, j) == t.data[(i - 1) * RowLen(t) + j]
RECURSIVE MaxSeq(_)
MaxSeq(s) == IF Len(s) = 1 THEN s[1] ELSE Max(Head(s), MaxSeq(Tail(s)))
RowSeq(t, i) == [j \in 1..RowLen(t) |-> Elem(t, i, j)]
\* logsumexp over the last axis of row i.
LogSumExp(t, i) ==
    LET m == MaxSeq(RowSeq(t, i))
    IN m + Log(SumSeq([j \in 1..RowLen(t) |-> Exp(Elem(t, i, j) - m)]))
\* torch.distributions.Categorical(logits=...): keeps the normalised logits.
Categorical(logits) ==
    [tag |-> "Categorical",
     loc |-> Tensor(logits.shape,
                    [k \in 1..Len(logits.data) |->
                        logits.data[k]
                        - LogSumExp(logits, (k - 1) \div RowLen(logits) + 1)]),
     scale |-> None]
\* Categorical.probs.
CategoricalProbs(dist) == Map1(Exp, dist.loc)
\* The batch shape of a Categorical: the logits' shape without its last axis.
BatchShape(dist) == IF Rank(dist.loc) = 2 THEN <<dist.loc.shape[1]>> ELSE <<>>
\* Categorical.entropy(): -sum(p * logits) over the last axis.
CategoricalEntropy(dist) ==
    LET p == CategoricalProbs(dist)
    IN Tensor(BatchShape(dist),
              [i \in 1..NumRows(dist.loc) |->
                  -RDiv(SumSeq([j \in 1..RowLen(dist.loc) |->
                                   Elem(p, i, j) * Elem(dist.loc, i, j)]), Scale)])
\* Categorical.log_prob(value): the value (indices from 0) is broadcast against
\* the batch shape and the normalised logit of each index gathered.
CategoricalLogProb(dist, value) ==
    LET r == BroadcastPad(BatchShape(dist), value.shape)
        n == r[1] * r[2]
        rowOf(k) == IF NumRows(dist.loc) = 1 THEN 1 ELSE k
        idxOf(k) == IF Len(value.data) = 1 THEN value.data[1] ELSE value.data[k]
    IN Tensor(BroadcastShape(BatchShape(dist), value.shape),
              [k \in 1..n |-> Elem(dist.loc, rowOf(k), idxOf(k) + 1)])
\* th.argmax(t, dim=1) of a rank-2 tensor: the first maximal index of each row.
ArgMaxRow(t, i) ==
    CHOOSE j \in 1..RowLen(t) :
        /\ Elem(t, i, j) = MaxSeq(RowSeq(t, i))
        /\ \A l \in 1..(j - 1) : Elem(t, i, l) < Elem(t, i, j)
ArgMaxDim1(t) == Tensor(<<t.shape[1]>>, [i \in 1..t.shape[1] |-> ArgMaxRow(t, i) - 1])

\* ------------------------------------------------------- instances, outcomes
\* epsilon=1e-6, in units of 10^-6.
Epsilon == 1

\* No instance constructed yet.
NoInstance == [kind |-> "none", action_dim |-> 0, distribution |-> NoDist,
               gaussian_action |-> None, epsilon |-> 0]

\* DiagGaussianDistribution.__init__(action_dim).
DiagGaussianDistribution(action_dim) ==
    [kind |-> "DiagGaussianDistribution", action_dim |-> action_dim,
     distribution |-> NoDist, gaussian_action |-> None, epsilon |-> 0]
\* SquashedDiagGaussianDistribution.__init__(action_dim, epsilon).
SquashedDiagGaussianDistribution(action_dim, epsilon) ==
    [DiagGaussianDistribution(action_dim) EXCEPT
        !.kind = "SquashedDiagGaussianDistribution",
        !.epsilon = epsilon,
        !.gaussian_action = None]
\* CategoricalDistribution.__init__(action_dim).
CategoricalDistribution(action_dim) ==
    [kind |-> "CategoricalDistribution", action_dim |-> action_dim,
     distribution |-> NoDist, gaussian_action |-> None, epsilon |-> 0]

\* The outcome of a call: the instance after it, "ok" or the exception, the
\* returned value(s), the instance returned (if one is), the action the last
\* inner sample() / mode() returned (if any), and an exception's message.
Return(self, value) ==
    [self |-> self, status |-> "ok", value |-> value, value2 |-> None,
     obj |-> NoInstance, produced |-> None, msg |-> ""]
Raise(self, exc) ==
    [self |-> self, status |-> exc, value |-> None, value2 |-> None,
     obj |-> NoInstance, produced |-> None, msg |-> ""]
\* self.distribution.<attr> with self.distribution = None.
Unparameterized(self) == self.distribution.tag = "None"

\* ------------------------------------------------- DiagGaussianDistribution
DiagGaussianDistribution_mode(self) ==
    IF Unparameterized(self) THEN Raise(self, "AttributeError")
    ELSE [Return(self, NormalMean(self.distribution)) EXCEPT
             !.produced = NormalMean(self.distribution)]

DiagGaussianDistribution_sample(self, eps) ==
    IF Unparameterized(self) THEN Raise(self, "AttributeError")
    ELSE [Return(self, NormalRSample(self.distribution, eps)) EXCEPT
             !.produced = NormalRSample(self.distribution, eps)]

DiagGaussianDistribution_entropy(self) ==
    IF Unparameterized(self) THEN Raise(self, "AttributeError")
    ELSE Return(self, NormalEntropy(self.distribution))

DiagGaussianDistribution_log_prob(self, action) ==
    IF Unparameterized(self) THEN Raise(self, "AttributeError")
    ELSE IF ~Broadcastable(action.shape, self.distribution.loc.shape)
    THEN Raise(self, "RuntimeError")
    ELSE LET log_prob == NormalLogProb(self.distribution, action)
         IN IF Len(log_prob.shape) > 1
            THEN Return(self, SumAxis1(log_prob))
            ELSE Return(self, SumAll(log_prob))

\* --------------------------------------- SquashedDiagGaussianDistribution
\* A variant that answers None instead of failing on self.distribution = None.
SquashedDiagGaussianDistribution_mode_silent(self) ==
    IF Unparameterized(self) THEN Return(self, None)
    ELSE LET s1 == [self EXCEPT !.gaussian_action = NormalMean(self.distribution)]
         IN [Return(s1, TanhT(s1.gaussian_action)) EXCEPT
                !.produced = TanhT(s1.gaussian_action)]

SquashedDiagGaussianDistribution_mode(self) ==
    IF Unparameterized(self) THEN Raise(self, "AttributeError")
    ELSE LET gaussian_action == NormalMean(self.distribution)
             s1 == [self EXCEPT !.gaussian_action = gaussian_action]
         IN [Return(s1, TanhT(s1.gaussian_action)) EXCEPT
                !.produced = TanhT(s1.gaussian_action)]

\* A variant that squashes the draw without keeping it in self.gaussian_action.
SquashedDiagGaussianDistribution_sample_uncached(self, eps) ==
    IF Unparameterized(self) THEN Raise(self, "AttributeError")
    ELSE [Return(self, TanhT(NormalRSample(self.distribution, eps))) EXCEPT
             !.produced = TanhT(NormalRSample(self.distribution, eps))]

SquashedDiagGaussianDistribution_sample(self, eps) ==
    IF Unparameterized(self) THEN Raise(self, "AttributeError")
    ELSE LET gaussian_action == NormalRSample(self.distribution, eps)
             s1 == [self EXCEPT !.gaussian_action = gaussian_action]
         IN [Return(s1, TanhT(s1.gaussian_action)) EXCEPT
                !.produced = TanhT(s1.gaussian_action)]

\* 1 - action ** 2 on one element, a and the result in 1/Unit.
OneMinusSquare(a) == MulShift(Unit - Abs(a), Unit + Abs(a))
\* s / Unit in units of 10^-9 (2^-24 = 59.604645 * 10^-9), 0 <= s <= Unit.
UnitToNano(s) ==
    s * 59 + ((s \div 1000) * 604 + RDiv((s % 1000) * 604, 1000))
           + ((s \div 1000000) * 645 + RDiv((s % 1000000) * 645, 1000000))
\* th.log(1 - action ** 2 + self.epsilon) on one element: a in 1/Unit,
\* epsilon in 10^-6, the result in 1/Scale (ln(10^3) = 6.907755).
SquashCorrectionElem(a, epsilon) ==
    RDiv(LnFine(UnitToNano(OneMinusSquare(a)) + 1000 * epsilon) - 6907755, 1000)
\* log_prob -= correction, on one element.
SubElem(x, y) == IF IsInf(x) THEN x ELSE x - y

\* log_prob -= th.sum(th.log(1 - action ** 2 + self.epsilon), dim=1), where
\* base is the outcome of the inherited log_prob(gaussian_action).
SquashCorrected(self, action, base) ==
    LET CorrElem(a) == SquashCorrectionElem(a, self.epsilon)
        correction == SumAxis1(Map1(CorrElem, action))
    IN IF base.status # "ok" THEN base
       \* th.sum(..., dim=1) of a rank-1 tensor
       ELSE IF Len(action.shape) < 2 THEN Raise(self, "IndexError")
       \* an in-place -= cannot change the shape of log_prob
       ELSE IF \/ ~Broadcastable(base.value.shape, correction.shape)
               \/ BroadcastShape(base.value.shape, correction.shape) # base.value.shape
       THEN Raise(self, "RuntimeError")
       ELSE Return(self, Map2(SubElem, base.value, correction))

\* A variant that falls back on the cache when gaussian_action is omitted.
SquashedDiagGaussianDistribution_log_prob_cached(self, action, gaussian_action) ==
    LET ga == IF ~IsNone(gaussian_action) THEN gaussian_action
              ELSE IF ~IsNone(self.gaussian_action) THEN self.gaussian_action
              ELSE ArcTanhT(action)
    IN Bind(DiagGaussianDistribution_log_prob(self, ga),
            LAMBDA base : SquashCorrected(self, action, base))

SquashedDiagGaussianDistribution_log_prob(self, action, gaussian_action) ==
    LET ga == IF IsNone(gaussian_action) THEN ArcTanhT(action) ELSE gaussian_action
    IN Bind(DiagGaussianDistribution_log_prob(self, ga),
            LAMBDA base : SquashCorrected(self, action, base))

\* ------------------------------------------------ CategoricalDistribution
CategoricalDistribution_mode(self) ==
    IF Unparameterized(self) THEN Raise(self, "AttributeError")
    \* th.argmax(probs, dim=1) of a rank-1 tensor
    ELSE IF Rank(self.distribution.loc) < 2 THEN Raise(self, "IndexError")
    ELSE [Return(self, ArgMaxDim1(CategoricalProbs(self.distribution))) EXCEPT
             !.produced = ArgMaxDim1(CategoricalProbs(self.distribution))]

\* Categorical.sample(): idx is the draw, one index per batch element.
CategoricalDistribution_sample(self, idx) ==
    IF Unparameterized(self) THEN Raise(self, "AttributeError")
    ELSE [Return(self, idx) EXCEPT !.produced = idx]

CategoricalDistribution_entropy(self) ==
    IF Unparameterized(self) THEN Raise(self, "AttributeError")
    ELSE Return(self, CategoricalEntropy(self.distribution))

CategoricalDistribution_log_prob(self, action) ==
    IF Unparameterized(self) THEN Raise(self, "AttributeError")
    ELSE IF ~Broadcastable(action.shape, BatchShape(self.distribution))
    THEN Raise(self, "RuntimeError")
    ELSE Return(self, CategoricalLogProb(self.distribution, action))

\* ------------------------------------------------------- method resolution
IsGaussian(self) ==
    self.kind \in {"DiagGaussianDistribution", "SquashedDiagGaussianDistribution"}
IsSquashed(self) == self.kind = "SquashedDiagGaussianDistribution"
IsCategorical(self) == self.kind = "CategoricalDistribution"

\* self.mode()
mode(self) ==
    IF IsSquashed(self) THEN SquashedDiagGaussianDistribution_mode(self)
    ELSE IF IsCategorical(self) THEN CategoricalDistribution_mode(self)
    ELSE DiagGaussianDistribution_mode(self)
\* self.sample(); noise is the random draw it makes.
sample(self, noise) ==
    IF IsSquashed(self) THEN SquashedDiagGaussianDistribution_sample(self, noise)
    ELSE IF IsCategorical(self) THEN CategoricalDistribution_sample(self, noise)
    ELSE DiagGaussianDistribution_sample(self, noise)
\* self.entropy(): SquashedDiagGaussianDistribution defines none and inherits
\* DiagGaussianDistribution.entropy.
entropy(self) ==
    IF IsCategorical(self) THEN CategoricalDistribution_entropy(self)
    ELSE DiagGaussianDistribution_entropy(self)
\* self.log_prob(action) / self.log_prob(action, gaussian_action).
log_prob(self, action, gaussian_action) ==
    IF IsSquashed(self)
    THEN SquashedDiagGaussianDistribution_log_prob(self, action, gaussian_action)
    ELSE IF IsCategorical(self) THEN CategoricalDistribution_log_prob(self, action)
    ELSE DiagGaussianDistribution_log_prob(self, action)
\* self.kl_div(other): only Distribution defines it.
kl_div(self) == Raise(self, "NotImplementedError")

\* ------------------------------------------------------ proba_distribution
\* th.ones_like(mean_actions) * log_std.exp()
MulElem(a, b) == RDiv(a * b, Scale)
OnesLike(t) == Tensor(t.shape, [k \in 1..Len(t.data) |-> Scale])
ActionStd(mean_actions, log_std) == Map2(MulElem, OnesLike(mean_actions), Map1(Exp, log_std))

\* return action, self: r is the outcome of the call that gave the action.
ActionAndSelf(r) == IF r.status # "ok" THEN r ELSE [r EXCEPT !.obj = r.self]

\* if deterministic: action = self.mode() else: action = self.sample()
ModeOrSample(self, deterministic, noise) ==
    IF deterministic THEN mode(self) ELSE sample(self, noise)

DiagGaussianDistribution_proba_distribution(self, mean_actions, log_std, deterministic, eps) ==
    LET action_std == ActionStd(mean_actions, log_std)
    IN Bind([self EXCEPT !.distribution = Normal(mean_actions, action_std)],
            LAMBDA s1 : Bind(ModeOrSample(s1, deterministic, eps), ActionAndSelf))

SquashedDiagGaussianDistribution_proba_distribution(self, mean_actions, log_std, deterministic, eps) ==
    Bind(DiagGaussianDistribution_proba_distribution(self, mean_actions, log_std,
                                                     deterministic, eps),
         ActionAndSelf)

CategoricalDistribution_proba_distribution(self, action_logits, deterministic, idx) ==
    Bind([self EXCEPT !.distribution = Categorical(action_logits)],
         LAMBDA s1 : Bind(ModeOrSample(s1, deterministic, idx), ActionAndSelf))

\* self.proba_distribution(mean_actions, log_std, deterministic) of a Gaussian.
proba_distribution(self, mean_actions, log_std, deterministic, eps) ==
    IF IsSquashed(self)
    THEN SquashedDiagGaussianDistribution_proba_distribution(self, mean_actions, log_std,
                                                             deterministic, eps)
    ELSE DiagGaussianDistribution_proba_distribution(self, mean_actions, log_std,
                                                     deterministic, eps)

\* ---------------------------------------------------- log_prob_from_params
\* (action, log_prob) after the two calls r (proba_distribution) and lp
\* (log_prob); an exception of either propagates.
ActionAndLogProb(r, lp) ==
    IF r.status # "ok" THEN r
    ELSE IF lp.status # "ok" THEN [lp EXCEPT !.produced = r.produced]
    ELSE [Return(lp.self, r.value) EXCEPT !.value2 = lp.value,
                                          !.produced = r.produced]

\* log_prob = self.log_prob(action), after the call r gave the action.
ThenLogProb(r) ==
    IF r.status # "ok" THEN r
    ELSE Bind(log_prob(r.self, r.value, None), LAMBDA lp : ActionAndLogProb(r, lp))
\* log_prob = self.log_prob(action, self.gaussian_action)
ThenLogProbCached(r) ==
    IF r.status # "ok" THEN r
    ELSE Bind(log_prob(r.self, r.value, r.self.gaussian_action),
              LAMBDA lp : ActionAndLogProb(r, lp))

DiagGaussianDistribution_log_prob_from_params(self, mean_actions, log_std, eps) ==
    Bind(proba_distribution(self, mean_actions, log_std, FALSE, eps), ThenLogProb)

SquashedDiagGaussianDistribution_log_prob_from_params(self, mean_actions, log_std, eps) ==
    Bind(proba_distribution(self, mean_actions, log_std, FALSE, eps), ThenLogProbCached)

CategoricalDistribution_log_prob_from_params(self, action_logits, idx) ==
    Bind(CategoricalDistribution_proba_distribution(self, action_logits, FALSE, idx),
         ThenLogProb)

\* --------------------------------------------------- make_proba_distribution
\* A gym space: its class, its shape (Box) and its n (Discrete, MultiBinary).
Space(type, shape, n) == [type |-> type, shape |-> shape, n |-> n]

\* A variant that gives a Box the squashed Gaussian.
make_proba_distribution_squashed(action_space) ==
    IF action_space.type = "Box"
    THEN IF Len(action_space.shape) # 1
         THEN [Raise(NoInstance, "AssertionError") EXCEPT
                  !.msg = "Error: the action space must be a vector"]
         ELSE [Return(SquashedDiagGaussianDistribution(action_space.shape[1], Epsilon),
                      None) EXCEPT
                  !.obj = SquashedDiagGaussianDistribution(action_space.shape[1], Epsilon)]
    ELSE IF action_space.type = "Discrete"
    THEN [Return(CategoricalDistribution(action_space.n), None) EXCEPT
             !.obj = CategoricalDistribution(action_space.n)]
    ELSE [Raise(NoInstance, "NotImplementedError") EXCEPT !.msg = action_space.type]

make_proba_distribution(action_space) ==
    IF action_space.type = "Box"
    THEN IF Len(action_space.shape) # 1
         THEN [Raise(NoInstance, "AssertionError") EXCEPT
                  !.msg = "Error: the action space must be a vector"]
         ELSE [Return(DiagGaussianDistribution(action_space.shape[1]), None) EXCEPT
                  !.obj = DiagGaussianDistribution(action_space.shape[1])]
    ELSE IF action_space.type = "Discrete"
    THEN [Return(CategoricalDistribution(action_space.n), None) EXCEPT
             !.obj = CategoricalDistribution(action_space.n)]
    ELSE [Raise(NoInstance, "NotImplementedError") EXCEPT !.msg = action_space.type]

\* ------------------------------------------------------------------ inputs
\* Entries of mean_actions, of log_std (0 and ln 2) and of the standard
\* normal draw of rsample().
MeanVals == <<0, 5 * Scale>>
LogStdVals == {0, 693}
NoiseVals == <<-Scale, Scale \div 2>>
\* Entries of an action the caller obtained elsewhere.
ActVals == <<Scale \div 2, -900>>
\* Entries of action_logits.
LogitStep == Scale
Seeds == {0, 1}

\* A tensor of the given shape whose entries run through vals from seed on.
PatternTensor(shape, vals, seed) ==
    Tensor(shape, [k \in 1..Numel(shape) |-> vals[((k + seed) % Len(vals)) + 1]])
\* The (B, d) tensor with the rows rs[1], ..., rs[B].
Batched(rs, B, d) ==
    Tensor(<<B, d>>, [k \in 1..(B * d) |-> rs[(k - 1) \div d + 1][((k - 1) % d) + 1]])
\* Unbatched (d) and batched (B, d) tensors; the rows of a batch run through
\* rows (a sequence) from seed on.
ParamTensors(rows, d) ==
    {Tensor(<<d>>, rows[i]) : i \in 1..Len(rows)}
    \cup {Batched([i \in 1..B |-> rows[((i + seed) % Len(rows)) + 1]], B, d) :
             B \in 1..MaxBatch, seed \in Seeds}

\* Rows of mean_actions: the entries alternate through MeanVals, from either one.
MeanRows(d) == <<[j \in 1..d |-> MeanVals[(j % 2) + 1]],
                 [j \in 1..d |-> MeanVals[((j + 1) % 2) + 1]]>>
MeanTensors(d) == ParamTensors(MeanRows(d), d)
\* log_std as proba_distribution_net builds it: th.ones(action_dim) * log_std_init.
LogStds(d) == {Tensor(<<d>>, [j \in 1..d |-> v]) : v \in LogStdVals}
Noises(shape) == {PatternTensor(shape, NoiseVals, seed) : seed \in Seeds}

\* Rows of action_logits: uniform, or rising by LogitStep from a first index on.
LogitRows(n) == <<[j \in 1..n |-> 0], [j \in 1..n |-> (j - 1) * LogitStep]>>
LogitTensors(n) == ParamTensors(LogitRows(n), n)
\* The draws of Categorical.sample(): one index (from 0) per batch element.
IndexDraws(shape, n) ==
    {Tensor(shape, [k \in 1..Numel(shape) |-> (k + seed) % n]) : seed \in 0..(n - 1)}

\* Actions handed to log_prob from outside: unbatched and batched.
ActionShapes(d) == {<<d>>} \cup {<<b, d>> : b \in 1..MaxBatch}
ExternalActions(d) == {PatternTensor(shape, ActVals, 0) : shape \in ActionShapes(d)}
\* The same for the squashed Gaussian: entries 0.5 and -0.9 in 1/Unit.
SquashedActVals == <<Unit \div 2, -RDiv(9 * Unit, 10)>>
ExternalSquashedActions(d) ==
    {PatternTensor(shape, SquashedActVals, 0) : shape \in ActionShapes(d)}
IndexShapes == {<<>>} \cup {<<b>> : b \in 1..MaxBatch}
ExternalIndices(n) ==
    {Tensor(shape, [k \in 1..Numel(shape) |-> k % n]) : shape \in IndexShapes}

NoSpace == Space("none", <<>>, 0)
ActionSpaces ==
    {Space("Box", <<d>>, 0) : d \in 1..MaxDim}
    \cup {Space("Box", <<d, d>>, 0) : d \in 1..MaxDim}
    \cup {Space("Box", <<>>, 0)}
    \cup {Space("Discrete", <<>>, n) : n \in 1..MaxDim}
    \cup {Space("MultiDiscrete", <<MaxDim>>, 0), Space("MultiBinary", <<MaxDim>>, MaxDim),
          Space("Tuple", <<>>, 0), Space("Dict", <<>>, 0)}

\* ------------------------------------------------------------------- state
VARIABLES
    inst,        \* the distribution instance (NoInstance before construction)
    call,        \* the last call made: its name and arguments
    ret,         \* the outcome of the last call
    lastAction   \* the action sample() / mode() of inst returned last (None: none)

vars == <<inst, call, ret, lastAction>>

Call(op) ==
    [op |-> op, params |-> None, log_std |-> None, deterministic |-> FALSE,
     noise |-> None, action |-> None, gaussian_action |-> None, space |-> NoSpace]

Init ==
    /\ inst = NoInstance
    /\ call = Call("none")
    /\ ret = Return(NoInstance, None)
    /\ lastAction = None

\* One call c with outcome out.
Step(c, out) ==
    \E r \in {out} :
        /\ inst' = r.self
        /\ call' = c
        /\ ret' = r
        /\ lastAction' = IF IsNone(r.produced) THEN lastAction ELSE r.produced

\* make_proba_distribution(action_space)
Make ==
    /\ inst.kind = "none"
    /\ \E sp \in ActionSpaces :
          Step([Call("make_proba_distribution") EXCEPT !.space = sp],
               make_proba_distribution(sp))

\* SquashedDiagGaussianDistribution(action_dim): the caller's own choice.
ConstructSquashed ==
    /\ inst.kind = "none"
    /\ \E d \in 1..MaxDim :
          Step(Call("SquashedDiagGaussianDistribution"),
               [Return(SquashedDiagGaussianDistribution(d, Epsilon), None) EXCEPT
                   !.obj = SquashedDiagGaussianDistribution(d, Epsilon)])

\* The draw a sample() of self would make (None when it raises before drawing).
Draws(self) ==
    IF Unparameterized(self) THEN {None}
    ELSE IF IsCategorical(self)
    THEN IndexDraws(BatchShape(self.distribution), self.action_dim)
    ELSE Noises(self.distribution.loc.shape)

ProbaDistributionGaussian ==
    /\ IsGaussian(inst)
    /\ \E mean_actions \in MeanTensors(inst.action_dim),
          log_std \in LogStds(inst.action_dim), deterministic \in BOOLEAN :
          \E eps \in IF deterministic THEN {None} ELSE Noises(mean_actions.shape) :
             Step([Call("proba_distribution") EXCEPT
                      !.params = mean_actions, !.log_std = log_std,
                      !.deterministic = deterministic, !.noise = eps],
                  proba_distribution(inst, mean_actions, log_std, deterministic, eps))

ProbaDistributionCategorical ==
    /\ IsCategorical(inst)
    /\ \E action_logits \in LogitTensors(inst.action_dim), deterministic \in BOOLEAN :
          \E idx \in IF deterministic THEN {None}
                     ELSE IndexDraws(BatchShape(Categorical(action_logits)),
                                     inst.action_dim) :
             Step([Call("proba_distribution") EXCEPT
                      !.params = action_logits, !.deterministic = deterministic,
                      !.noise = idx],
                  CategoricalDistribution_proba_distribution(inst, action_logits,
                                                             deterministic, idx))

CallMode ==
    /\ inst.kind # "none"
    /\ Step(Call("mode"), mode(inst))

CallSample ==
    /\ inst.kind # "none"
    /\ \E noise \in Draws(inst) :
          Step([Call("sample") EXCEPT !.noise = noise], sample(inst, noise))

CallEntropy ==
    /\ inst.kind # "none"
    /\ Step(Call("entropy"), entropy(inst))

CallKlDiv ==
    /\ inst.kind # "none"
    /\ Step(Call("kl_div"), kl_div(inst))

\* The actions a caller passes to log_prob: the one inst produced last, or
\* one from elsewhere.
Actions(self) ==
    (IF IsNone(lastAction) THEN {} ELSE {lastAction})
    \cup (IF IsCategorical(self) THEN ExternalIndices(self.action_dim)
          ELSE IF IsSquashed(self) THEN ExternalSquashedActions(self.action_dim)
          ELSE ExternalActions(self.action_dim))

\* log_prob(action)
CallLogProb ==
    /\ inst.kind # "none"
    /\ \E action \in Actions(inst) :
          Step([Call("log_prob") EXCEPT !.action = action],
               log_prob(inst, action, None))

\* log_prob(action, gaussian_action) with the cached pre-image or with one
\* the caller computed.
CallLogProbGaussianAction ==
    /\ IsSquashed(inst)
    /\ \E action \in Actions(inst) :
          \E gaussian_action \in
                (IF IsNone(inst.gaussian_action) THEN {} ELSE {inst.gaussian_action})
                \cup {ArcTanhT(action)} :
             Step([Call("log_prob") EXCEPT !.action = action,
                                           !.gaussian_action = gaussian_action],
                  log_prob(inst, action, gaussian_action))

LogProbFromParamsGaussian ==
    /\ IsGaussian(inst)
    /\ \E mean_actions \in MeanTensors(inst.action_dim),
          log_std \in LogStds(inst.action_dim) :
          \E eps \in Noises(mean_actions.shape) :
             Step([Call("log_prob_from_params") EXCEPT
                      !.params = mean_actions, !.log_std = log_std, !.noise = eps],
                  IF IsSquashed(inst)
                  THEN SquashedDiagGaussianDistribution_log_prob_from_params(
                           inst, mean_actions, log_std, eps)
                  ELSE DiagGaussianDistribution_log_prob_from_params(
                           inst, mean_actions, log_std, eps))

LogProbFromParamsCategorical ==
    /\ IsCategorical(inst)
    /\ \E action_logits \in LogitTensors(inst.action_dim) :
          \E idx \in IndexDraws(BatchShape(Categorical(action_logits)), inst.action_dim) :
             Step([Call("log_prob_from_params") EXCEPT
                      !.params = action_logits, !.noise = idx],
                  CategoricalDistribution_log_prob_from_params(inst, action_logits, idx))

Next ==
    \/ Make
    \/ ConstructSquashed
    \/ ProbaDistributionGaussian
    \/ ProbaDistributionCategorical
    \/ CallMode
    \/ CallSample
    \/ CallEntropy
    \/ CallKlDiv
    \/ CallLogProb
    \/ CallLogProbGaussianAction
    \/ LogProbFromParamsGaussian
    \/ LogProbFromParamsCategorical

Spec == Init /\ [][Next]_vars

\* ------------------------------------------------------------------ claims
Parameterized(self) == self.kind # "none" /\ ~Unparameterized(self)
QueryOps == {"sample", "mode", "log_prob", "entropy"}
\* Every entry of the action lies strictly inside (-1, 1).
StrictlyInside(a) == \A k \in 1..Len(a.data) : Abs(a.data[k]) < Unit
\* The number of scalars log_prob is to return for an action: one per batch
\* element, one in all for an unbatched action.
ScalarsFor(action) == IF Rank(action) = 2 THEN action.shape[1] ELSE 1
\* The sum over the dimensions of row i of the Gaussian log-densities of an
\* action against a distribution of the same shape.
RowLogDensity(dist, action, i) ==
    SumSeq([j \in 1..RowLen(action) |->
               NormalLogProbElem(Elem(action, i, j), Elem(dist.loc, i, j),
                                 Elem(dist.scale, i, j))])
\* The sum over the dimensions of row i of log(1 - a^2 + epsilon).
RowCorrection(action, epsilon, i) ==
    SumSeq([j \in 1..RowLen(action) |->
               SquashCorrectionElem(Elem(action, i, j), epsilon)])
\* The values gaussian_action can hold on an instance with this distribution.
CacheValues(self) ==
    {None} \cup (IF Unparameterized(self) THEN {}
                 ELSE {NormalMean(self.distribution)}
                      \cup {NormalRSample(self.distribution, eps) :
                               eps \in Noises(self.distribution.loc.shape)})

\* C1: on a SquashedDiagGaussianDistribution, parameterized or not, entropy()
\* raises NotImplementedError and never returns a value.
C1_SquashedEntropyNotSupported ==
    (IsSquashed(inst) /\ call.op = "entropy")
        => (ret.status = "NotImplementedError" /\ IsNone(ret.value))

\* C2: on an instance of any variant that was never parameterized, sample(),
\* mode(), log_prob(action) and entropy() end in an error and leave the
\* instance as it was (distribution None, gaussian_action None).
C2_QueryBeforeParameterizationFails ==
    [][(inst.kind # "none" /\ Unparameterized(inst) /\ call'.op \in QueryOps)
          => (/\ ret'.status # "ok"
              /\ IsNone(ret'.value)
              /\ inst' = inst
              /\ Unparameterized(inst')
              /\ IsNone(inst'.gaussian_action))]_vars
C2_Witness ==
    /\ IsSquashed(inst) /\ Unparameterized(inst)
    /\ call.op = "log_prob" /\ ~IsNone(call.gaussian_action)
    /\ ret.status = "AttributeError"

\* C3: on a parameterized SquashedDiagGaussianDistribution the cached
\* gaussian_action is the pre-squash value of the action the instance
\* returned last (tanh of it is that action), and it is a value of the current
\* parameterization: its mean or one of its draws.
C3_CacheIsPreimageOfLastAction ==
    (IsSquashed(inst) /\ Parameterized(inst))
        => (/\ ~IsNone(inst.gaussian_action)
            /\ ~IsNone(lastAction)
            /\ TanhT(inst.gaussian_action) = lastAction
            /\ inst.gaussian_action \in CacheValues(inst))
C3_Witness ==
    /\ IsSquashed(inst) /\ Parameterized(inst)
    /\ call.op = "sample" /\ ret.status = "ok" /\ ret.value = lastAction
    /\ inst.gaussian_action # NormalMean(inst.distribution)
    /\ Rank(lastAction) = 2

\* C4: DiagGaussianDistribution.entropy() on a batch of B mean vectors of
\* dimension d returns B values, each the sum over the d dimensions of the
\* per-dimension entropies.
C4_EntropySummedPerBatchElement ==
    (inst.kind = "DiagGaussianDistribution" /\ Parameterized(inst)
     /\ Rank(inst.distribution.loc) = 2 /\ call.op = "entropy")
        => (/\ ret.status = "ok"
            /\ Len(ret.value.data) = inst.distribution.loc.shape[1]
            /\ ret.value.data = SumAxis1(NormalEntropy(inst.distribution)).data)

\* C5: SquashedDiagGaussianDistribution.log_prob, with gaussian_action
\* supplied or omitted, returns B scalars for a batch of B actions on B mean
\* vectors, and one scalar, without raising, for an unbatched action on an
\* unbatched mean.
C5_SquashedLogProbShape ==
    (/\ IsSquashed(inst) /\ Parameterized(inst) /\ call.op = "log_prob"
     /\ call.action.shape = inst.distribution.loc.shape
     /\ (IsNone(call.gaussian_action)
         \/ call.gaussian_action.shape = call.action.shape))
        => (/\ ret.status = "ok"
            /\ Len(ret.value.data) = ScalarsFor(call.action))

\* C6: DiagGaussianDistribution.log_prob(action) returns B scalars for a
\* rank-2 action of shape (B, d), the i-th the sum over the d dimensions of
\* row i only, and one scalar, the sum over all d dimensions, for a rank-1
\* action of shape (d).
C6_LogProbScalarsPerAction ==
    (inst.kind = "DiagGaussianDistribution" /\ Parameterized(inst)
     /\ call.op = "log_prob")
        => (/\ ret.status = "ok"
            /\ Len(ret.value.data) = ScalarsFor(call.action)
            /\ (call.action.shape = inst.distribution.loc.shape)
                  => \A i \in 1..ScalarsFor(call.action) :
                        ret.value.data[i] =
                           RowLogDensity(inst.distribution, call.action, i))

\* C7 as stated: make_proba_distribution gives a Box vector space of dimension
\* d the unsquashed DiagGaussianDistribution(d), a Discrete space of n actions
\* CategoricalDistribution(n), and fails on every other descriptor with
\* NotImplementedError, its message naming the descriptor's type.
C7_TotalDispatch ==
    (call.op = "make_proba_distribution")
        => IF call.space.type = "Box" /\ Len(call.space.shape) = 1
           THEN ret.status = "ok" /\ ret.obj = inst
                /\ inst = DiagGaussianDistribution(call.space.shape[1])
           ELSE IF call.space.type = "Discrete"
           THEN ret.status = "ok" /\ ret.obj = inst
                /\ inst = CategoricalDistribution(call.space.n)
           ELSE ret.status = "NotImplementedError" /\ ret.msg = call.space.type
                /\ inst = NoInstance /\ ret.obj = NoInstance
\* C7 as amended: the same for a Box vector space, a Discrete space and every
\* descriptor that is neither a Box nor a Discrete; a Box whose shape is not
\* one-dimensional fails the assertion "the action space must be a vector",
\* which does not name the type, and yields no distribution either.
C7_DispatchWithVectorAssertion ==
    (call.op = "make_proba_distribution")
        => IF call.space.type = "Box"
           THEN IF Len(call.space.shape) = 1
                THEN ret.status = "ok" /\ ret.obj = inst
                     /\ inst = DiagGaussianDistribution(call.space.shape[1])
                     /\ ~IsSquashed(inst)
                ELSE ret.status = "AssertionError"
                     /\ ret.msg = "Error: the action space must be a vector"
                     /\ inst = NoInstance /\ ret.obj = NoInstance
           ELSE IF call.space.type = "Discrete"
           THEN ret.status = "ok" /\ ret.obj = inst
                /\ inst = CategoricalDistribution(call.space.n)
           ELSE ret.status = "NotImplementedError" /\ ret.msg = call.space.type
                /\ inst = NoInstance /\ ret.obj = NoInstance
C7_Witness ==
    /\ call.op = "make_proba_distribution"
    /\ call.space.type = "MultiBinary"
    /\ ret.status = "NotImplementedError" /\ ret.msg = "MultiBinary"
    /\ inst = NoInstance

\* The distribution proba_distribution is to build from the call's parameters.
BuiltDistribution(self, c) ==
    IF IsCategorical(self) THEN Categorical(c.params)
    ELSE Normal(c.params, ActionStd(c.params, c.log_std))

\* C8: for all three variants, proba_distribution(params, deterministic)
\* replaces the distribution by one built from params and returns (action, the
\* same instance), the action being the value of the class's own mode() if
\* deterministic and of its own sample() otherwise; for the squashed Gaussian
\* that is tanh(mean), resp. tanh of the draw.
C8_ProbaDistributionReturnsOwnModeOrSample ==
    (call.op = "proba_distribution")
        => /\ inst.distribution = BuiltDistribution(inst, call)
           /\ ret.status = "ok"
           /\ ret.obj = inst
           /\ ret.self = inst
           /\ LET own == IF call.deterministic THEN mode(inst)
                         ELSE sample(inst, call.noise)
              IN own.status = "ok" /\ ret.value = own.value
           /\ (inst.kind = "DiagGaussianDistribution")
                 => ret.value = (IF call.deterministic THEN call.params
                                 ELSE NormalRSample(inst.distribution, call.noise))
           /\ IsSquashed(inst)
                 => ret.value = TanhT(IF call.deterministic THEN call.params
                                      ELSE NormalRSample(inst.distribution, call.noise))

\* C9: on a parameterized SquashedDiagGaussianDistribution, for the action a it
\* produced last, strictly inside (-1, 1), log_prob(a, cached gaussian_action)
\* and log_prob(a) both return a value, the Gaussian log-density at the
\* pre-image minus the sum over the dimensions of log(1 - a^2 + epsilon), and
\* the same value where arctanh(a) is exactly the cached pre-image.
C9_RoundTrip ==
    (/\ IsSquashed(inst) /\ Parameterized(inst) /\ call.op = "log_prob"
     /\ ~IsNone(lastAction) /\ call.action = lastAction /\ StrictlyInside(lastAction)
     /\ (IsNone(call.gaussian_action) \/ call.gaussian_action = inst.gaussian_action))
        => LET cached == log_prob(inst, lastAction, inst.gaussian_action)
               omitted == log_prob(inst, lastAction, None)
               n == ScalarsFor(lastAction)
           IN /\ ret.status = "ok"
              /\ cached.status = "ok" /\ omitted.status = "ok"
              /\ ret.value = (IF IsNone(call.gaussian_action) THEN omitted.value
                              ELSE cached.value)
              /\ Len(cached.value.data) = n /\ Len(omitted.value.data) = n
              /\ \A i \in 1..n :
                    /\ cached.value.data[i] =
                          SubElem(RowLogDensity(inst.distribution, inst.gaussian_action, i),
                                  RowCorrection(lastAction, inst.epsilon, i))
                    /\ omitted.value.data[i] =
                          SubElem(RowLogDensity(inst.distribution, ArcTanhT(lastAction), i),
                                  RowCorrection(lastAction, inst.epsilon, i))
              /\ (ArcTanhT(lastAction) = inst.gaussian_action)
                    => cached.value = omitted.value

\* C10: SquashedDiagGaussianDistribution.log_prob(action) without
\* gaussian_action does not read the cache: an instance with the same
\* distribution and any other cached gaussian_action gives the same outcome
\* for the same action; and no log_prob call, with or without gaussian_action,
\* changes the cached gaussian_action or the distribution.
C10_LogProbIgnoresCache ==
    /\ []((IsSquashed(inst) /\ call.op = "log_prob" /\ IsNone(call.gaussian_action))
             => \A g \in CacheValues(inst) :
                   LET other == log_prob([inst EXCEPT !.gaussian_action = g],
                                         call.action, None)
                   IN other.status = ret.status /\ other.value = ret.value)
    /\ [][(IsSquashed(inst) /\ call'.op = "log_prob")
             => (/\ inst'.gaussian_action = inst.gaussian_action
                 /\ inst'.distribution = inst.distribution)]_vars
C10_Witness ==
    /\ IsSquashed(inst) /\ Parameterized(inst)
    /\ call.op = "log_prob" /\ IsNone(call.gaussian_action)
    /\ call.action # lastAction /\ call.action.shape = lastAction.shape
    /\ Rank(call.action) = 2
    /\ ret.status = "ok"
    /\ inst.gaussian_action # ArcTanhT(call.action)

====
